---- MODULE Spec2Model ----
(***************************************************************************)
(* Model of examples/app-python/example_app.py of SatOS-Payload-SDK: the   *)
(* main program (new, set_payload_values, the try/except around run) and   *)
(* the handlers handle_test_gpio, handle_uart_loopback and                 *)
(* handle_test_can_bus.  The framework the example calls into              *)
(* (PayloadApplication, its metrics and sequence registries, its           *)
(* dispatcher) is not part of the example; it is modelled from the         *)
(* repository's specification and said so where it is defined.             *)
(***************************************************************************)
EXTENDS Integers, Sequences, FiniteSets, TLC

VARIABLES
    \* ---- main program and application object
    pc,            \* statement of new()/__main__ that runs next ("L<line>")
    loopI,         \* loop variable i of set_payload_values
    appState,      \* "created" | "running" | "stopped"
    healthCheck,   \* the predicate given to set_health_check, or "unset"
    registry,      \* sequence name -> handler
    used_counter,  \* payload_metrics.used_counter
    metrics,       \* payload_metrics.metrics: index -> [names, counter]
    err,           \* error raised by a framework call during setup, or "none"
    runResult,     \* "pending" | "returned" | "raised"
    logged,        \* logger.exception("payload app failed") was called
    exitStatus,    \* process exit status, meaningful once pc = "exited"
    active,        \* handlers the engine is executing
    lastOutcome,   \* outcome of the engine's last dispatch
    \* ---- handle_test_gpio
    gpioPc, pin_count, pins, gi, readPin, writePin, val, idxUsed,
    gpioSawError, gpioOutcome,
    \* ---- handle_uart_loopback, one entry per concurrent execution
    uartPc, data, serOpen, rxBuf, read_data, uartOutcome,
    \* ---- handle_test_can_bus
    canPc, arb_id, rxStarted, loopCounter, sentCount, rxCount, received_data,
    canSawError, canOutcome

mainVars == <<pc, loopI, appState, healthCheck, registry, used_counter, metrics,
              err, runResult, logged, exitStatus, active, lastOutcome>>
gpioVars == <<gpioPc, pin_count, pins, gi, readPin, writePin, val, idxUsed,
              gpioSawError, gpioOutcome>>
uartVars == <<uartPc, data, serOpen, rxBuf, read_data, uartOutcome>>
canVars == <<canPc, arb_id, rxStarted, loopCounter, sentCount, rxCount,
             received_data, canSawError, canOutcome>>
vars == <<mainVars, gpioVars, uartVars, canVars>>

-----------------------------------------------------------------------------
(* Program constants and model bounds *)

g_GPIO_ERROR == -1
UsedCounters == 5
MaxNameLen == 16
send_msg_limit == 10
Capacity == 8

MaxActive == 2      \* executions the engine runs at once
MaxPins == 3        \* longest pin array handed to handle_test_gpio
MaxQueue == 2       \* most CAN messages waiting in the receiver's queue

NoName == "<no name>"

-----------------------------------------------------------------------------
(* Framework operations used by the example (modelled from the specification) *)

\* SequenceRegistry.register behind PayloadApplication.mount_sequence
mount_sequence(state, reg, name, handler) ==
    IF state # "created" THEN [err |-> "AlreadyRunningError", registry |-> reg]
    ELSE IF Len(name) = 0 \/ Len(name) > MaxNameLen
         THEN [err |-> "InvalidNameError", registry |-> reg]
    ELSE IF name \in DOMAIN reg
         THEN [err |-> "DuplicateNameError", registry |-> reg]
    ELSE [err |-> "none", registry |-> (name :> handler) @@ reg]

lookup(reg, name) ==
    IF name \in DOMAIN reg THEN reg[name] ELSE "NotFoundError"

\* PayloadApplication.set_health_check
set_health_check(state, predicate) ==
    IF state # "created" THEN [err |-> "AlreadyRunningError", healthCheck |-> "unset"]
    ELSE [err |-> "none", healthCheck |-> predicate]

\* MetricsRegistry.define_counter: only the name changes
define_counter(m, index, name) ==
    IF index < 0 \/ index >= Capacity THEN [err |-> "IndexOutOfRangeError", metrics |-> m]
    ELSE [err |-> "none", metrics |-> [m EXCEPT ![index].names = name]]

\* MetricsRegistry.inc_counter
inc_counter(m, index) ==
    IF index < 0 \/ index >= Capacity THEN [err |-> "IndexOutOfRangeError", metrics |-> m]
    ELSE [err |-> "none", metrics |-> [m EXCEPT ![index].counter = @ + 1]]

-----------------------------------------------------------------------------
(* new(), set_payload_values() and __main__ *)

MountLines == {"L209", "L210", "L211", "L212", "L213", "L214", "L215", "L216"}

MountAtDuplicate(p) ==
    CASE p = "L209" -> [name |-> "HelloWorld", handler |-> "handle_hello_world"]
      [] p = "L210" -> [name |-> "HelloFriend", handler |-> "handle_hello_friend"]
      [] p = "L211" -> [name |-> "LogLocation", handler |-> "handle_log_location"]
      [] p = "L212" -> [name |-> "TestGPIO", handler |-> "handle_test_gpio"]
      [] p = "L213" -> [name |-> "UARTLoopback", handler |-> "handle_uart_loopback"]
      [] p = "L214" -> [name |-> "StageFile", handler |-> "handle_stage_filedownload"]
      [] p = "L215" -> [name |-> "PowerControl", handler |-> "handle_power_control"]
      [] p = "L216" -> [name |-> "TestGPIO", handler |-> "handle_test_can_bus"]

\* the name and the handler of the mount_sequence call on each line of new()
MountAt(p) ==
    CASE p = "L209" -> [name |-> "HelloWorld", handler |-> "handle_hello_world"]
      [] p = "L210" -> [name |-> "HelloFriend", handler |-> "handle_hello_friend"]
      [] p = "L211" -> [name |-> "LogLocation", handler |-> "handle_log_location"]
      [] p = "L212" -> [name |-> "TestGPIO", handler |-> "handle_test_gpio"]
      [] p = "L213" -> [name |-> "UARTLoopback", handler |-> "handle_uart_loopback"]
      [] p = "L214" -> [name |-> "StageFile", handler |-> "handle_stage_filedownload"]
      [] p = "L215" -> [name |-> "PowerControl", handler |-> "handle_power_control"]
      [] p = "L216" -> [name |-> "TestCANBus", handler |-> "handle_test_can_bus"]

NextPcRunBeforeLastMount(p) ==
    CASE p = "L203" -> "L222"
      [] p = "L222" -> "L226"
      [] p = "L226" -> "L230"
      [] p = "L230" -> "L233"
      [] p = "L233" -> "L235"
      [] p = "L235" -> "L209"
      [] p = "L209" -> "L210"
      [] p = "L210" -> "L211"
      [] p = "L211" -> "L212"
      [] p = "L212" -> "L213"
      [] p = "L213" -> "L214"
      [] p = "L214" -> "L215"
      [] p = "L215" -> "L246"
      [] p = "L246" -> "L216"
      [] p = "L216" -> "end"

\* statement order of __main__: new() (set_health_check, set_payload_values,
\* the eight mounts), then app.run(), then the end of the script
NextPc(p) ==
    CASE p = "L203" -> "L222"
      [] p = "L222" -> "L226"
      [] p = "L226" -> "L230"
      [] p = "L230" -> "L233"
      [] p = "L233" -> "L235"
      [] p = "L235" -> "L209"
      [] p = "L209" -> "L210"
      [] p = "L210" -> "L211"
      [] p = "L211" -> "L212"
      [] p = "L212" -> "L213"
      [] p = "L213" -> "L214"
      [] p = "L214" -> "L215"
      [] p = "L215" -> "L216"
      [] p = "L216" -> "L246"
      [] p = "L246" -> "end"

\* an error raised outside the try block ends the process with status 1
Uncaught(e) ==
    /\ err' = e
    /\ pc' = "exited"
    /\ exitStatus' = 1

\* f"Counter {i}"
CounterName(i) == "Counter " \o ToString(i)

InitialCounterValueOff(i) == i

\* the value line 226 gives counter i
InitialCounterValue(i) == i + 1

\* PayloadApplication() just constructed
InitMain ==
    /\ pc = "L203"
    /\ loopI = 0
    /\ appState = "created"
    /\ healthCheck = "unset"
    /\ registry = <<>>
    /\ used_counter = 0
    /\ metrics = [k \in 0..(Capacity - 1) |-> [names |-> NoName, counter |-> 0]]
    /\ err = "none"
    /\ runResult = "pending"
    /\ logged = FALSE
    /\ exitStatus = 0
    /\ active = {}
    /\ lastOutcome = "none"

\* line 203
SetHealthCheck ==
    /\ pc = "L203"
    /\ LET r == set_health_check(appState, "is_healthy") IN
         IF r.err # "none"
         THEN Uncaught(r.err) /\ UNCHANGED healthCheck
         ELSE healthCheck' = r.healthCheck /\ pc' = NextPc(pc)
                /\ UNCHANGED <<err, exitStatus>>
    /\ UNCHANGED <<loopI, appState, registry, used_counter, metrics, runResult,
                   logged, active, lastOutcome>>
    /\ UNCHANGED <<gpioVars, uartVars, canVars>>

\* line 222
SetUsedCounter ==
    /\ pc = "L222"
    /\ used_counter' = UsedCounters
    /\ loopI' = 0
    /\ pc' = NextPc(pc)
    /\ UNCHANGED <<appState, healthCheck, registry, metrics, err, runResult,
                   logged, exitStatus, active, lastOutcome>>
    /\ UNCHANGED <<gpioVars, uartVars, canVars>>

\* lines 225-226, one iteration; metrics[i] past the list is an IndexError
SetCounterValue ==
    /\ pc = "L226"
    /\ IF loopI >= used_counter
       THEN /\ loopI' = 0
            /\ pc' = NextPc(pc)
            /\ UNCHANGED <<metrics, err, exitStatus>>
       ELSE IF loopI >= Capacity
       THEN Uncaught("IndexError") /\ UNCHANGED <<metrics, loopI>>
       ELSE /\ metrics' = [metrics EXCEPT ![loopI].counter = InitialCounterValue(loopI)]
            /\ loopI' = loopI + 1
            /\ UNCHANGED <<pc, err, exitStatus>>
    /\ UNCHANGED <<appState, healthCheck, registry, used_counter, runResult,
                   logged, active, lastOutcome>>
    /\ UNCHANGED <<gpioVars, uartVars, canVars>>

\* lines 229-230, one iteration
SetCounterName ==
    /\ pc = "L230"
    /\ IF loopI >= used_counter
       THEN /\ loopI' = 0
            /\ pc' = NextPc(pc)
            /\ UNCHANGED <<metrics, err, exitStatus>>
       ELSE IF loopI >= Capacity
       THEN Uncaught("IndexError") /\ UNCHANGED <<metrics, loopI>>
       ELSE /\ metrics' = [metrics EXCEPT ![loopI].names = CounterName(loopI)]
            /\ loopI' = loopI + 1
            /\ UNCHANGED <<pc, err, exitStatus>>
    /\ UNCHANGED <<appState, healthCheck, registry, used_counter, runResult,
                   logged, active, lastOutcome>>
    /\ UNCHANGED <<gpioVars, uartVars, canVars>>

\* line 233
DefineCounter ==
    /\ pc = "L233"
    /\ LET r == define_counter(metrics, 1, "MetricName_1") IN
         IF r.err # "none"
         THEN Uncaught(r.err) /\ UNCHANGED metrics
         ELSE metrics' = r.metrics /\ pc' = NextPc(pc) /\ UNCHANGED <<err, exitStatus>>
    /\ UNCHANGED <<loopI, appState, healthCheck, registry, used_counter, runResult,
                   logged, active, lastOutcome>>
    /\ UNCHANGED <<gpioVars, uartVars, canVars>>

\* line 235
IncCounter ==
    /\ pc = "L235"
    /\ LET r == inc_counter(metrics, 1) IN
         IF r.err # "none"
         THEN Uncaught(r.err) /\ UNCHANGED metrics
         ELSE metrics' = r.metrics /\ pc' = NextPc(pc) /\ UNCHANGED <<err, exitStatus>>
    /\ UNCHANGED <<loopI, appState, healthCheck, registry, used_counter, runResult,
                   logged, active, lastOutcome>>
    /\ UNCHANGED <<gpioVars, uartVars, canVars>>

\* lines 209-216, one mount_sequence call
Mount ==
    /\ pc \in MountLines
    /\ LET r == mount_sequence(appState, registry, MountAt(pc).name, MountAt(pc).handler) IN
         IF r.err # "none"
         THEN Uncaught(r.err) /\ UNCHANGED registry
         ELSE registry' = r.registry /\ pc' = NextPc(pc) /\ UNCHANGED <<err, exitStatus>>
    /\ UNCHANGED <<loopI, appState, healthCheck, used_counter, metrics, runResult,
                   logged, active, lastOutcome>>
    /\ UNCHANGED <<gpioVars, uartVars, canVars>>

\* line 246: app.run() is entered and blocks
RunStart ==
    /\ pc = "L246"
    /\ appState = "created"
    /\ appState' = "running"
    /\ UNCHANGED <<pc, loopI, healthCheck, registry, used_counter, metrics, err,
                   runResult, logged, exitStatus, active, lastOutcome>>
    /\ UNCHANGED <<gpioVars, uartVars, canVars>>

\* the engine resolves a request and starts its handler
RequestNames ==
    {MountAt(p).name : p \in MountLines} \cup {"NoSuchSequence"}

Dispatch ==
    /\ appState = "running"
    /\ \E name \in RequestNames :
         LET h == lookup(registry, name) IN
           IF h = "NotFoundError"
           THEN lastOutcome' = "SequenceNotFoundError" /\ UNCHANGED active
           ELSE /\ h \notin active
                /\ Cardinality(active) < MaxActive
                /\ active' = active \cup {h}
                /\ lastOutcome' = "started"
    /\ UNCHANGED <<pc, loopI, appState, healthCheck, registry, used_counter, metrics,
                   err, runResult, logged, exitStatus>>
    /\ UNCHANGED <<gpioVars, uartVars, canVars>>

Complete ==
    /\ appState = "running"
    /\ \E h \in active : active' = active \ {h}
    /\ lastOutcome' = "completed"
    /\ UNCHANGED <<pc, loopI, appState, healthCheck, registry, used_counter, metrics,
                   err, runResult, logged, exitStatus>>
    /\ UNCHANGED <<gpioVars, uartVars, canVars>>

\* line 246: run() returns after a shutdown signal
RunReturn ==
    /\ pc = "L246"
    /\ appState = "running"
    /\ appState' = "stopped"
    /\ runResult' = "returned"
    /\ active' = {}
    /\ pc' = NextPc(pc)
    /\ UNCHANGED <<loopI, healthCheck, registry, used_counter, metrics, err,
                   logged, exitStatus, lastOutcome>>
    /\ UNCHANGED <<gpioVars, uartVars, canVars>>

\* line 246: run() raises; control goes to the except clause of line 247
RunRaise ==
    /\ pc = "L246"
    /\ appState = "running"
    /\ appState' = "stopped"
    /\ runResult' = "raised"
    /\ active' = {}
    /\ pc' = "L248"
    /\ UNCHANGED <<loopI, healthCheck, registry, used_counter, metrics, err,
                   logged, exitStatus, lastOutcome>>
    /\ UNCHANGED <<gpioVars, uartVars, canVars>>

ExceptHandlerNoExit ==
    /\ pc = "L248"
    /\ logged' = TRUE
    /\ pc' = "end"
    /\ UNCHANGED <<loopI, appState, healthCheck, registry, used_counter, metrics, err,
                   runResult, exitStatus, active, lastOutcome>>
    /\ UNCHANGED <<gpioVars, uartVars, canVars>>

\* lines 247-249: logger.exception(...); sys.exit(1)
ExceptHandler ==
    /\ pc = "L248"
    /\ logged' = TRUE
    /\ exitStatus' = 1
    /\ pc' = "exited"
    /\ UNCHANGED <<loopI, appState, healthCheck, registry, used_counter, metrics, err,
                   runResult, active, lastOutcome>>
    /\ UNCHANGED <<gpioVars, uartVars, canVars>>

\* the script runs off its end: status 0
ExitNormal ==
    /\ pc = "end"
    /\ exitStatus' = 0
    /\ pc' = "exited"
    /\ UNCHANGED <<loopI, appState, healthCheck, registry, used_counter, metrics, err,
                   runResult, logged, active, lastOutcome>>
    /\ UNCHANGED <<gpioVars, uartVars, canVars>>

-----------------------------------------------------------------------------
(* The application while run() blocks: the state new() leaves behind *)

RunningMain ==
    /\ pc = "L246"
    /\ loopI = 0
    /\ appState = "running"
    /\ healthCheck = "is_healthy"
    /\ registry = [n \in {MountAt(p).name : p \in MountLines} |->
                     MountAt(CHOOSE p \in MountLines : MountAt(p).name = n).handler]
    /\ used_counter = UsedCounters
    /\ metrics = [k \in 0..(Capacity - 1) |->
                    IF k >= UsedCounters THEN [names |-> NoName, counter |-> 0]
                    ELSE IF k = 1
                    THEN [names |-> "MetricName_1", counter |-> InitialCounterValue(k) + 1]
                    ELSE [names |-> CounterName(k), counter |-> InitialCounterValue(k)]]
    /\ err = "none"
    /\ runResult = "pending"
    /\ logged = FALSE
    /\ exitStatus = 0
    /\ active = {}
    /\ lastOutcome = "none"

-----------------------------------------------------------------------------
(* Controller.handle_test_gpio *)

PinValues == {-1, 4, 5}
GpioReadResults == {0, 1, g_GPIO_ERROR}

GpioIdle ==
    /\ gpioPc = "idle"
    /\ pin_count = 0
    /\ pins = <<>>
    /\ gi = 0
    /\ readPin = -1
    /\ writePin = -1
    /\ val = 0
    /\ idxUsed = {}
    /\ gpioSawError = FALSE
    /\ gpioOutcome = "none"

\* line 62: gpio_info = api_pa_pc_get_gpio_info(); pins has pin_count entries
GpioStart ==
    /\ gpioPc = "idle"
    /\ \E n \in 0..MaxPins : \E ps \in [1..n -> PinValues] :
         /\ pin_count' = n
         /\ pins' = ps
    /\ gi' = 0
    /\ gpioPc' = "L69"
    /\ UNCHANGED <<readPin, writePin, val, idxUsed, gpioSawError, gpioOutcome>>
    /\ UNCHANGED <<mainVars, uartVars, canVars>>

\* line 69: while i < pin_count
GpioLoopTest ==
    /\ gpioPc = "L69"
    /\ IF gi < pin_count
       THEN gpioPc' = "L70" /\ UNCHANGED gpioOutcome
       ELSE gpioPc' = "done" /\ gpioOutcome' = "returned"
    /\ UNCHANGED <<pin_count, pins, gi, readPin, writePin, val, idxUsed, gpioSawError>>
    /\ UNCHANGED <<mainVars, uartVars, canVars>>

\* pins[k] of the Python list (0-based); reading past its end raises IndexError
InRange(k) == 0 <= k /\ k < Len(pins)

\* lines 70-73: readPin = pins[i]; i += 1; writePin = pins[i]
GpioPickPins ==
    /\ gpioPc = "L70"
    /\ IF pins[gi + 1] # -1
       THEN /\ readPin' = pins[gi + 1]
            /\ gi' = gi + 1
            /\ idxUsed' = idxUsed \cup {gi, gi + 1}
            /\ IF InRange(gi + 1)
               THEN /\ writePin' = pins[gi + 2]
                    /\ gpioPc' = "L75"
                    /\ UNCHANGED gpioOutcome
               ELSE /\ gpioPc' = "done"
                    /\ gpioOutcome' = "IndexError"
                    /\ UNCHANGED writePin
       ELSE /\ gpioPc' = "L100"
            /\ idxUsed' = idxUsed \cup {gi}
            /\ UNCHANGED <<readPin, writePin, gi, gpioOutcome>>
    /\ UNCHANGED <<pin_count, pins, val, gpioSawError>>
    /\ UNCHANGED <<mainVars, uartVars, canVars>>

\* the else branches of lines 78-80, 89-91 and 97-99: log and return
GpioOnError ==
    /\ gpioSawError' = TRUE
    /\ gpioPc' = "done"
    /\ gpioOutcome' = "returned"

\* lines 75-83: val = read_gpio(readPin); on success val = val ^ 1
GpioReadInitial ==
    /\ gpioPc = "L75"
    /\ \E r \in GpioReadResults :
         IF r # g_GPIO_ERROR
         THEN /\ val' = 1 - r
              /\ gpioPc' = "L86"
              /\ UNCHANGED <<gpioSawError, gpioOutcome>>
         ELSE /\ val' = r
              /\ GpioOnError
    /\ UNCHANGED <<pin_count, pins, gi, readPin, writePin, idxUsed>>
    /\ UNCHANGED <<mainVars, uartVars, canVars>>

\* lines 86-91: val = write_gpio(writePin, val)
GpioWrite ==
    /\ gpioPc = "L86"
    /\ \E r \in {val, g_GPIO_ERROR} :
         /\ val' = r
         /\ IF r # g_GPIO_ERROR
            THEN gpioPc' = "L94" /\ UNCHANGED <<gpioSawError, gpioOutcome>>
            ELSE GpioOnError
    /\ UNCHANGED <<pin_count, pins, gi, readPin, writePin, idxUsed>>
    /\ UNCHANGED <<mainVars, uartVars, canVars>>

\* lines 94-99: val = read_gpio(readPin)
GpioReadFinal ==
    /\ gpioPc = "L94"
    /\ \E r \in GpioReadResults :
         /\ val' = r
         /\ IF r # g_GPIO_ERROR
            THEN gpioPc' = "L100" /\ UNCHANGED <<gpioSawError, gpioOutcome>>
            ELSE GpioOnError
    /\ UNCHANGED <<pin_count, pins, gi, readPin, writePin, idxUsed>>
    /\ UNCHANGED <<mainVars, uartVars, canVars>>

\* line 100: i += 1
GpioIncrement ==
    /\ gpioPc = "L100"
    /\ gi' = gi + 1
    /\ gpioPc' = "L69"
    /\ UNCHANGED <<pin_count, pins, readPin, writePin, val, idxUsed, gpioSawError,
                   gpioOutcome>>
    /\ UNCHANGED <<mainVars, uartVars, canVars>>

-----------------------------------------------------------------------------
(* Controller.handle_uart_loopback, executed by NumUart concurrent dispatches *)

NumUart == 2
UartProcs == 1..NumUart
UartParams == {"", "ping"}

UartIdle ==
    /\ uartPc = [p \in UartProcs |-> "idle"]
    /\ data = [p \in UartProcs |-> ""]
    /\ serOpen = [p \in UartProcs |-> FALSE]
    /\ rxBuf = <<>>
    /\ read_data = [p \in UartProcs |-> ""]
    /\ uartOutcome = [p \in UartProcs |-> "none"]

\* a return or a raise leaves the handler
UartExit(p, how) ==
    /\ uartPc' = [uartPc EXCEPT ![p] = "done"]
    /\ uartOutcome' = [uartOutcome EXCEPT ![p] = how]

\* line 104: data = ctx.params
UartStart(p) ==
    /\ uartPc[p] = "idle"
    /\ \E params \in UartParams : data' = [data EXCEPT ![p] = params]
    /\ uartPc' = [uartPc EXCEPT ![p] = "L105"]
    /\ UNCHANGED <<serOpen, rxBuf, read_data, uartOutcome>>
    /\ UNCHANGED <<mainVars, gpioVars, canVars>>

\* lines 105-113: the default string, the newline, the port name
UartPrepare(p) ==
    /\ uartPc[p] = "L105"
    /\ data' = [data EXCEPT ![p] =
                  (IF @ = "" THEN "Default string: Uart Tested working" ELSE @) \o "\n"]
    /\ uartPc' = [uartPc EXCEPT ![p] = "L115"]
    /\ UNCHANGED <<serOpen, rxBuf, read_data, uartOutcome>>
    /\ UNCHANGED <<mainVars, gpioVars, canVars>>

\* lines 114-118: ser = serial.Serial(uartPort, baud); the open succeeds, or
\* raises and the handler prints and returns.  Nothing in the handler looks at
\* whether another execution has the port open.
UartOpen(p) ==
    /\ uartPc[p] = "L115"
    /\ \/ /\ serOpen' = [serOpen EXCEPT ![p] = TRUE]
          /\ uartPc' = [uartPc EXCEPT ![p] = "L122"]
          /\ UNCHANGED uartOutcome
       \/ /\ UartExit(p, "returned")
          /\ UNCHANGED serOpen
    /\ UNCHANGED <<data, rxBuf, read_data>>
    /\ UNCHANGED <<mainVars, gpioVars, canVars>>

\* line 122: ser.write(...); Tx is looped back to Rx; a raise leaves the handler
UartWrite(p) ==
    /\ uartPc[p] = "L122"
    /\ \/ /\ rxBuf' = Append(rxBuf, data[p])
          /\ uartPc' = [uartPc EXCEPT ![p] = "L126"]
          /\ UNCHANGED uartOutcome
       \/ /\ UartExit(p, "raised")
          /\ UNCHANGED rxBuf
    /\ UNCHANGED <<data, serOpen, read_data>>
    /\ UNCHANGED <<mainVars, gpioVars, canVars>>

\* line 126: read_data = ser.readline() blocks until a line is there; a raise
\* leaves the handler
UartReadline(p) ==
    /\ uartPc[p] = "L126"
    /\ \/ /\ rxBuf # <<>>
          /\ read_data' = [read_data EXCEPT ![p] = Head(rxBuf)]
          /\ rxBuf' = Tail(rxBuf)
          /\ uartPc' = [uartPc EXCEPT ![p] = "L130"]
          /\ UNCHANGED uartOutcome
       \/ /\ UartExit(p, "raised")
          /\ UNCHANGED <<rxBuf, read_data>>
    /\ UNCHANGED <<data, serOpen>>
    /\ UNCHANGED <<mainVars, gpioVars, canVars>>

\* line 130: ser.close()
UartClose(p) ==
    /\ uartPc[p] = "L130"
    /\ serOpen' = [serOpen EXCEPT ![p] = FALSE]
    /\ UartExit(p, "returned")
    /\ UNCHANGED <<data, rxBuf, read_data>>
    /\ UNCHANGED <<mainVars, gpioVars, canVars>>

-----------------------------------------------------------------------------
(* Controller.handle_test_can_bus *)

DefaultArbId == 291      \* 0x123

\* ctx.params after split(): the tokens, each by its value
CanParams == {<<>>, <<512>>, <<512, 17>>}

CanIdle ==
    /\ canPc = "idle"
    /\ arb_id = 0
    /\ rxStarted = FALSE
    /\ loopCounter = 0
    /\ sentCount = 0
    /\ rxCount = 0
    /\ received_data = 0
    /\ canSawError = FALSE
    /\ canOutcome = "none"

\* lines 147-168: a parameter that is not two tokens is replaced by the default
CanParse ==
    /\ canPc = "idle"
    /\ \E parts \in CanParams :
         arb_id' = IF Len(parts) # 2 THEN DefaultArbId ELSE parts[1]
    /\ canPc' = "L171"
    /\ UNCHANGED <<rxStarted, loopCounter, sentCount, rxCount, received_data,
                   canSawError, canOutcome>>
    /\ UNCHANGED <<mainVars, gpioVars, uartVars>>

\* lines 171-176
CanStartReceiver ==
    /\ canPc = "L171"
    /\ rxStarted' = TRUE
    /\ loopCounter' = 0
    /\ canPc' = "L180"
    /\ UNCHANGED <<arb_id, sentCount, rxCount, received_data, canSawError, canOutcome>>
    /\ UNCHANGED <<mainVars, gpioVars, uartVars>>

\* line 180: while loopCounter < send_msg_limit
CanSendTest ==
    /\ canPc = "L180"
    /\ canPc' = IF loopCounter < send_msg_limit THEN "L181" ELSE "L188"
    /\ UNCHANGED <<arb_id, rxStarted, loopCounter, sentCount, rxCount, received_data,
                   canSawError, canOutcome>>
    /\ UNCHANGED <<mainVars, gpioVars, uartVars>>

\* lines 181-184
CanSend ==
    /\ canPc = "L181"
    /\ loopCounter' = loopCounter + 1
    /\ arb_id' = arb_id + 1
    /\ sentCount' = sentCount + 1
    /\ canPc' = "L180"
    /\ UNCHANGED <<rxStarted, rxCount, received_data, canSawError, canOutcome>>
    /\ UNCHANGED <<mainVars, gpioVars, uartVars>>

\* the receiver thread started on line 171 queues a message from the bus
CanReceive ==
    /\ rxStarted
    /\ canPc # "done"
    /\ rxCount < MaxQueue
    /\ rxCount' = rxCount + 1
    /\ UNCHANGED <<canPc, arb_id, rxStarted, loopCounter, sentCount, received_data,
                   canSawError, canOutcome>>
    /\ UNCHANGED <<mainVars, gpioVars, uartVars>>

\* line 188: while get_can_message_received_count() > 0; lines 195-197 after it
CanDrainTest ==
    /\ canPc = "L188"
    /\ IF rxCount > 0
       THEN canPc' = "L189" /\ UNCHANGED canOutcome
       ELSE canPc' = "done" /\ canOutcome' = "returned"
    /\ UNCHANGED <<arb_id, rxStarted, loopCounter, sentCount, rxCount, received_data,
                   canSawError>>
    /\ UNCHANGED <<mainVars, gpioVars, uartVars>>

\* lines 189-193: read_can_data() hands over a queued message, or returns the
\* error sentinel and the queue is as it was; either way the loop goes on
CanRead ==
    /\ canPc = "L189"
    /\ \/ /\ rxCount > 0
          /\ rxCount' = rxCount - 1
          /\ received_data' = 1
          /\ UNCHANGED canSawError
       \/ /\ received_data' = g_GPIO_ERROR
          /\ canSawError' = TRUE
          /\ UNCHANGED rxCount
    /\ canPc' = "L188"
    /\ UNCHANGED <<arb_id, rxStarted, loopCounter, sentCount, canOutcome>>
    /\ UNCHANGED <<mainVars, gpioVars, uartVars>>

-----------------------------------------------------------------------------
(* Specifications *)

Init == InitMain /\ GpioIdle /\ UartIdle /\ CanIdle

Next ==
    \/ SetHealthCheck
    \/ SetUsedCounter
    \/ SetCounterValue
    \/ SetCounterName
    \/ DefineCounter
    \/ IncCounter
    \/ Mount
    \/ RunStart
    \/ Dispatch
    \/ Complete
    \/ RunReturn
    \/ RunRaise
    \/ ExceptHandler
    \/ ExitNormal

Spec == Init /\ [][Next]_vars

GpioInit == RunningMain /\ GpioIdle /\ UartIdle /\ CanIdle

GpioNext ==
    \/ GpioStart
    \/ GpioLoopTest
    \/ GpioPickPins
    \/ GpioReadInitial
    \/ GpioWrite
    \/ GpioReadFinal
    \/ GpioIncrement

GpioSpec == GpioInit /\ [][GpioNext]_vars

UartInit == RunningMain /\ GpioIdle /\ UartIdle /\ CanIdle

UartNext ==
    \E p \in UartProcs :
        \/ UartStart(p)
        \/ UartPrepare(p)
        \/ UartOpen(p)
        \/ UartWrite(p)
        \/ UartReadline(p)
        \/ UartClose(p)

UartSpec == UartInit /\ [][UartNext]_vars

CanInit == RunningMain /\ GpioIdle /\ UartIdle /\ CanIdle

CanHandlerStep ==
    \/ CanParse
    \/ CanStartReceiver
    \/ CanSendTest
    \/ CanSend
    \/ CanDrainTest
    \/ CanRead

CanNext == CanHandlerStep \/ CanReceive

\* the thread that runs the handler keeps being scheduled; the bus is free to
\* deliver messages or not
CanSpec == CanInit /\ [][CanNext]_vars /\ WF_vars(CanHandlerStep)

-----------------------------------------------------------------------------
(* Claims *)

\* C1: every execution of handle_uart_loopback that opened the serial port has
\* closed it when the handler has exited, whichever way it exited.
UartClosedOnExit ==
    \A p \in UartProcs : uartPc[p] = "done" => ~serOpen[p]

\* C2: two concurrent executions of UARTLoopback never both hold an open
\* serial handle on the port.
UartExclusive ==
    Cardinality({p \in UartProcs : serOpen[p]}) <= 1

SetupLines == {"L203", "L222", "L226", "L230", "L233", "L235"} \cup MountLines

ExpectedHandlers ==
    [HelloWorld |-> "handle_hello_world", HelloFriend |-> "handle_hello_friend",
     LogLocation |-> "handle_log_location", TestGPIO |-> "handle_test_gpio",
     UARTLoopback |-> "handle_uart_loopback", StageFile |-> "handle_stage_filedownload",
     PowerControl |-> "handle_power_control", TestCANBus |-> "handle_test_can_bus"]

\* C3: set_health_check and the eight mount_sequence calls are over before
\* run() starts and none happens afterwards: AlreadyRunningError is never
\* raised, and the health check and the registered sequences do not change
\* while the application is running.
SetupBeforeRun ==
    /\ [](/\ err # "AlreadyRunningError"
          /\ (pc \in SetupLines => appState = "created")
          /\ (appState # "created" =>
                /\ healthCheck = "is_healthy"
                /\ DOMAIN registry = DOMAIN ExpectedHandlers))
    /\ [][appState = "running" =>
            registry' = registry /\ healthCheck' = healthCheck]_vars

SetupBeforeRunWitness ==
    /\ appState = "running"
    /\ lastOutcome = "started"
    /\ DOMAIN registry = DOMAIN ExpectedHandlers

\* C4: when run() raised, the failure is logged and the process ends with a
\* status other than 0; the process ends with status 0 only when run()
\* returned.
FaultNeverExitsZero ==
    /\ (pc = "exited" /\ exitStatus = 0 => runResult = "returned")
    /\ (runResult = "raised" => pc \in {"L248", "exited"})
    /\ (runResult = "raised" /\ pc = "exited" => logged /\ exitStatus # 0)

FaultNeverExitsZeroWitness ==
    pc = "exited" /\ runResult = "raised" /\ logged /\ exitStatus = 1

AfterSetPayloadValues == err = "none" /\ pc \notin {"L203", "L222", "L226", "L230", "L233", "L235"}

\* C5: define_counter changes only the name of its counter, inc_counter adds
\* exactly 1 to its counter and changes nothing else, and after
\* set_payload_values counter 1 is ("MetricName_1", 3) and counters 0, 2, 3, 4
\* are ("Counter i", i + 1).
CountersAfterSetPayloadValues ==
    /\ [](AfterSetPayloadValues =>
            /\ metrics[0] = [names |-> "Counter 0", counter |-> 1]
            /\ metrics[1] = [names |-> "MetricName_1", counter |-> 3]
            /\ metrics[2] = [names |-> "Counter 2", counter |-> 3]
            /\ metrics[3] = [names |-> "Counter 3", counter |-> 4]
            /\ metrics[4] = [names |-> "Counter 4", counter |-> 5])
    /\ [][pc = "L233" =>
            /\ used_counter' = used_counter
            /\ metrics'[1].names = "MetricName_1"
            /\ \A k \in DOMAIN metrics :
                 /\ metrics'[k].counter = metrics[k].counter
                 /\ (k # 1 => metrics'[k].names = metrics[k].names)]_vars
    /\ [][pc = "L235" =>
            /\ used_counter' = used_counter
            /\ metrics'[1].counter = metrics[1].counter + 1
            /\ \A k \in DOMAIN metrics :
                 /\ metrics'[k].names = metrics[k].names
                 /\ (k # 1 => metrics'[k].counter = metrics[k].counter)]_vars

CountersAfterSetPayloadValuesWitness ==
    pc = "L209" /\ metrics[1].counter = 3 /\ metrics[1].names = "MetricName_1"

\* C6: during and after set_payload_values used_counter <= capacity, every
\* counter below used_counter has a name, and no IndexOutOfRangeError is raised.
MetricsInvariant ==
    /\ used_counter <= Capacity
    /\ \A k \in 0..(used_counter - 1) : k \in DOMAIN metrics /\ metrics[k].names # NoName
    /\ err # "IndexOutOfRangeError"

AfterNew == err = "none" /\ pc \in {"L246", "L248", "end", "exited"}

\* C7: the eight mount_sequence calls of new() succeed, their names being 1 to
\* 16 characters long and pairwise distinct, and afterwards lookup of each name
\* gives the handler mounted under it.
AllMountsSucceed ==
    /\ err \notin {"InvalidNameError", "DuplicateNameError"}
    /\ \A p \in MountLines : Len(MountAt(p).name) \in 1..16
    /\ \A p, q \in MountLines : p # q => MountAt(p).name # MountAt(q).name
    /\ AfterNew =>
         \A n \in DOMAIN ExpectedHandlers : lookup(registry, n) = ExpectedHandlers[n]

AllMountsSucceedWitness ==
    pc = "L246" /\ appState = "created" /\ Cardinality(DOMAIN registry) = 8

\* C8: an execution of handle_test_gpio in which a GPIO call returned the error
\* sentinel does not end as a normal completion.
GpioErrorIsReported ==
    gpioPc = "done" /\ gpioSawError => gpioOutcome # "returned"

\* C9: every index handle_test_gpio uses on gpio_info.pins is in
\* 0..pin_count-1.
GpioIndexInRange ==
    \A k \in idxUsed : 0 <= k /\ k < pin_count

\* C10: every execution of handle_test_can_bus eventually returns.
CanHandlerReturns ==
    <>(canPc = "done")

====
